---- MODULE Spec2Model ----
(***************************************************************************)
(* Model of the download controller of the mp3 downloader backend          *)
(* (DownloadController: startDownload, processDownload, handleSingle-      *)
(* Download, executeYtDlp, onCloseCallback and the second extraction pass   *)
(* that processDownload runs after the first one, processPlaylist,          *)
(* getDownloadStatus and downloadFile), of the validation of a start        *)
(* request (validateStartDownload) and of MetadataService.writeTags.        *)
(*                                                                          *)
(* Node runs one callback at a time; every `await` is a point where other   *)
(* callbacks may run.  Each action below is the code between two such       *)
(* points.  The two try blocks of processDownload are two steps (pc         *)
(* "block2" lies between them).  The extraction binary, the info query,     *)
(* the tag writer and the file system are the environment: their outcomes   *)
(* are drawn from small sets.  Spec is the controller; TagSpec is one call  *)
(* of writeTags with the files it copies, writes and renames, which the     *)
(* controller summarises by the result of the call; MergeSpec is the same   *)
(* call with the tag values it prepares.  SpawnSpec is the controller in    *)
(* an environment where the extraction binary may fail to start; ZipSpec    *)
(* is one job of a URL with a `list` parameter, which processDownload       *)
(* hands to handlePlaylistDownload and createZipArchive.                    *)
(***************************************************************************)
EXTENDS Integers, Sequences, FiniteSets, TLC

VARIABLES
    downloads,          \* Map<string, DownloadInfo>: job id -> record
    downloadProcesses,  \* Map<string, ChildProcess>: job id -> ordinal of the spawn
    fs,                 \* files of the downloads directory: path -> size
    pc,                 \* job id -> the await its processing is suspended at
    local,              \* job id -> locals of the suspended callbacks
    hist,               \* job id -> observations used by the properties
    nextId,             \* number of job ids issued so far, plus one
    nextPlaylist,       \* number of playlist ids issued so far, plus one
    pending,            \* start requests suspended in `await processPlaylist`
    streams,            \* downloadFile requests past their 404 checks
    res,                \* the response sent last
    served,             \* number of requests taken and not answered with 202
    statuses,           \* the body of the last response of getDownloadStatus
    tag                 \* MetadataService.writeTags: the call in progress

\* what the handlers of the HTTP requests keep besides the registry
http == <<nextPlaylist, pending, streams, res, served, statuses>>

vars == <<downloads, downloadProcesses, fs, pc, local, hist, nextId, http, tag>>

----------------------------------------------------------------------------
(* Bounds *)

MaxJobs == 2

MaxUrls == 2

MaxSize == 1

\* jobs created plus requests not answered with 202 in one behaviour
MaxLoad == 2

\* start requests that may be suspended in processPlaylist at one time
MaxPending == 1

\* downloadFile requests that may be streaming at one time
MaxStreams == 1

----------------------------------------------------------------------------
(* Inputs *)

\* The URLs of single videos a client may submit (none carries a `list`
\* parameter); "u2" is a video that only playlists list.
Urls == {"u1", "u3"}

\* The URLs with a `list` parameter a client may submit.
PlaylistUrls == {"p0", "p1", "p2"}

\* All URLs with a `list` parameter: "p3" is a list of lists, which ZipSpec
\* starts from and no client of Spec submits.
ListParamUrls == PlaylistUrls \cup {"p3"}

\* The URLs of the entries that `yt-dlp --flat-playlist --dump-json` lists
\* for a playlist URL, one per output line.
PlaylistItems(url) ==
    CASE url = "p2" -> <<"u1", "u2">>
      [] url = "p1" -> <<"u2">>
      [] url = "p3" -> <<"p1">>
      [] OTHER      -> <<>>

\* The title the info query reports for a URL, as a sequence of tokens:
\* a word token, " " (whitespace), "!" (punctuation).  <<>> is the empty
\* (falsy) title.  The titles of u1 and u2 differ and sanitize to one name.
\* The query of the one-video playlist p1 reports that video.
VideoTitle(url) ==
    CASE url = "u1" -> <<"A", " ", "b">>
      [] url = "u2" -> <<"A", "!", " ", "b">>
      [] url = "p1" -> <<"L">>
      [] OTHER      -> <<>>

\* Percentages a "[download] NN%" line may carry: \d+\.?\d* also matches
\* numbers above 100.
Percents == {100, 150}

ExitCodes == {0, 1}

FileSizes == 0..MaxSize

UrlLists ==
    UNION {[1..n -> Urls \cup PlaylistUrls] : n \in 0..MaxUrls}

\* a number n as a quality value of a request body, in tenths
Tenths(n) == [numeric |-> TRUE, tenths |-> n]

\* a quality value that is no number, or no quality at all
NotANumber == [numeric |-> FALSE, tenths |-> 0]

\* the quality the client of the repository sends
DefaultQuality == Tenths(1920)

\* quality values of a request body: 0, the ends of the range and their
\* neighbours, a fraction inside the range, and a value that is no number
Qualities ==
    {Tenths(n) : n \in {0, 10, 950, 959, 960, 1285, 3200, 3201, 3210}} \cup {NotANumber}

\* req.body of POST /downloads/start: urls is an array, is missing, or is
\* something else; the quality varies for the requests of one single URL
Bodies ==
    [kind : {"array"}, urls : UrlLists, quality : {DefaultQuality}]
        \cup {[kind |-> "missing", urls |-> <<>>, quality |-> DefaultQuality],
              [kind |-> "string", urls |-> <<>>, quality |-> DefaultQuality]}
        \cup [kind : {"array"}, urls : {<<"u1">>}, quality : Qualities]

----------------------------------------------------------------------------
(* Values *)

NoTitle == <<>>

NoError == ""

NoSize == 0 - 1

NoPath == [stem |-> <<>>, ext |-> "none"]

NoStats == 0 - 1

NoPlaylist == 0

UnknownTitle == <<"Unknown", " ", "Title">>

\* a response: status code, and for a 202 the urls asked for, downloadIds
\* and playlists
Response(code, urls, downloadIds, playlists) ==
    [code |-> code, urls |-> urls, downloadIds |-> downloadIds, playlists |-> playlists]

NoRes == Response(0, <<>>, <<>>, <<>>)

\* no call of writeTags is in progress
NoTag == [pc |-> "idle"]

JobIds == 1..MaxJobs

\* uuidv4() as text, usable as a file name
IdToken(id) == ToString(id)

Truthy(title) == title # <<>>

----------------------------------------------------------------------------
(* File names *)

IsPunct(tok) == tok = "!"

IsSpace(tok) == tok = " "

ToLowerTok(tok) ==
    CASE tok = "A" -> "a"
      [] tok = "Untitled" -> "untitled"
      [] tok = "Unknown" -> "unknown"
      [] tok = "Title" -> "title"
      [] OTHER -> tok

\* s.replace(/[^\w\s-]/g, '')
StripNonWord(s) == SelectSeq(s, LAMBDA tok : ~IsPunct(tok))

\* s.replace(/\s+/g, '_')
RECURSIVE CollapseSpaces(_)
CollapseSpaces(s) ==
    IF s = <<>> THEN <<>>
    ELSE IF IsSpace(Head(s))
         THEN IF Len(s) > 1 /\ IsSpace(s[2])
              THEN CollapseSpaces(Tail(s))
              ELSE <<"_">> \o CollapseSpaces(Tail(s))
         ELSE <<Head(s)>> \o CollapseSpaces(Tail(s))

\* s.toLowerCase()
ToLowerCase(s) == [i \in 1..Len(s) |-> ToLowerTok(s[i])]

Mp3(stem) == [stem |-> stem, ext |-> "mp3"]

\* handleSingleDownload: `${info.title?.replace(/[^\w\s-]/g, '') || download.id}.mp3`
SinglePath(infoTitle, id) ==
    IF Truthy(StripNonWord(infoTitle))
    THEN Mp3(StripNonWord(infoTitle))
    ELSE Mp3(<<IdToken(id)>>)

\* processDownload, second block: finalOutputPath
FinalOutputPath(title, id) ==
    IF Truthy(title)
    THEN Mp3(ToLowerCase(CollapseSpaces(StripNonWord(title))))
    ELSE Mp3(<<IdToken(id)>>)

\* processDownload, second block: outputPath from the info title
TitleOutputPath(infoTitle) == Mp3(CollapseSpaces(StripNonWord(infoTitle)))

----------------------------------------------------------------------------
(* The file system *)

Exists(f, p) == p \in DOMAIN f

WriteFile(f, p, sz) == [q \in DOMAIN f \cup {p} |-> IF q = p THEN sz ELSE f[q]]

Unlink(f, p) == [q \in DOMAIN f \ {p} |-> f[q]]

\* `download.outputPath && fs.existsSync(download.outputPath)`
OutputExists(f, d) == d.outputPath # NoPath /\ Exists(f, d.outputPath)

----------------------------------------------------------------------------
(* Job records *)

Created == DOMAIN downloads

\* startDownload: the DownloadInfo of a single URL
NewDownloadInfo(id, url) ==
    [id |-> id, url |-> url, status |-> "queued", progress |-> 0,
     title |-> NoTitle, outputPath |-> NoPath, error |-> NoError,
     size |-> NoSize, metadata |-> NoTitle, playlistId |-> NoPlaylist]

\* the listed video's record without its playlistId
NewChildInfoMutant(id, videoUrl, playlistId) ==
    [id |-> id, url |-> videoUrl, status |-> "queued", progress |-> 0,
     title |-> UnknownTitle, outputPath |-> NoPath, error |-> NoError,
     size |-> NoSize, metadata |-> UnknownTitle, playlistId |-> NoPlaylist]

\* processPlaylist: the DownloadInfo of a listed video
NewChildInfo(id, videoUrl, playlistId) ==
    LET title == IF Truthy(VideoTitle(videoUrl)) THEN VideoTitle(videoUrl) ELSE UnknownTitle
    IN [id |-> id, url |-> videoUrl, status |-> "queued", progress |-> 0,
        title |-> title, outputPath |-> NoPath, error |-> NoError,
        size |-> NoSize, metadata |-> title, playlistId |-> playlistId]

NewLocal == [info |-> NoTitle, stats |-> NoStats, procPath |-> NoPath]

\* execPromise(`yt-dlp --dump-json --no-warnings "${url}"`): the pieces of
\* one command line that a shell parses
GetVideoInfoCommand(url) ==
    [shell |-> TRUE, words |-> <<"yt-dlp --dump-json --no-warnings \"", url, "\"">>]

\* execPromise(`yt-dlp --flat-playlist --dump-json --no-warnings "${playlistUrl}"`)
PlaylistCommand(url) ==
    [shell |-> TRUE,
     words |-> <<"yt-dlp --flat-playlist --dump-json --no-warnings \"", url, "\"">>]

\* spawn('yt-dlp', args): the argument list the binary is started with; the
\* URL is its last element
SpawnCommand(url) ==
    [shell |-> FALSE,
     words |-> <<"yt-dlp", "--extract-audio", "--audio-format", "mp3", "--no-mtime", url>>]

\* no invocation
NoCommand == [shell |-> FALSE, words |-> <<>>]

\* invoked: the invocations of the extraction binary made for the job; the
\* info queries of one job are the same command.  tagged: writeTags was
\* called for the job.  zipFail: createZipArchive rejected for the job.
\* exit0: the subprocess spawned last for the job has closed with code 0.
NewHist ==
    [spawns |-> 0, live |-> 0, exitNonZero |-> FALSE, tagFail |-> FALSE, fault |-> FALSE,
     invoked |-> {}, tagged |-> FALSE, zipFail |-> FALSE, exit0 |-> FALSE]

SetError(d, msg) == [d EXCEPT !.status = "error", !.error = msg]

ExitMessage(code) == "yt-dlp process exited with code " \o ToString(code)

----------------------------------------------------------------------------
(* Init: the controller after construction *)

Init ==
    /\ downloads = <<>>
    /\ downloadProcesses = <<>>
    /\ fs = <<>>
    /\ pc = <<>>
    /\ local = <<>>
    /\ hist = <<>>
    /\ nextId = 1
    /\ nextPlaylist = 1
    /\ pending = <<>>
    /\ streams = <<>>
    /\ res = NoRes
    /\ served = 0
    /\ statuses = <<>>
    /\ tag = NoTag

----------------------------------------------------------------------------
(* startDownload and the synchronous head of processDownload *)

\* the skip guards of processDownload (lines 694-703)
ProcessDownloadSkips(d) == d.status = "completed" \/ d.status = "downloading"

\* processDownload up to its first await: the skip guards, then
\* status = 'downloading', progress = 5 and the info query is issued.
ProcessDownloadHead(d) ==
    IF ProcessDownloadSkips(d)
    THEN d
    ELSE [d EXCEPT !.status = "downloading", !.progress = 5]

\* isPlaylistUrl: the URL has a `list` parameter
IsPlaylistUrl(url) == url \in ListParamUrls

\* the continuations that run before Node takes the next event are not
\* interleaved with request handlers
NoMicrotask == \A j \in Created : pc[j] # "block2"

\* the number of jobs the URLs urls[i], urls[i+1], ... of a request ask for
RECURSIVE Demand(_, _)
Demand(urls, i) ==
    IF i > Len(urls) THEN 0
    ELSE (IF IsPlaylistUrl(urls[i]) THEN Len(PlaylistItems(urls[i])) ELSE 1)
             + Demand(urls, i + 1)

\* the most jobs and responses other than 202 that the URLs urls[i],
\* urls[i+1], ... of a request can add: a playlist that lists nothing ends
\* the request with one such response
RECURSIVE Load(_, _)
Load(urls, i) ==
    IF i > Len(urls) THEN 0
    ELSE IF ~IsPlaylistUrl(urls[i]) THEN 1 + Load(urls, i + 1)
    ELSE IF Len(PlaylistItems(urls[i])) = 0 THEN 1
    ELSE Len(PlaylistItems(urls[i])) + Load(urls, i + 1)

\* every numeric quality passes
ValidQualityMutant(q) == q.numeric

\* validateStartDownload, body('quality'): isNumeric(), then
\* Number(value) === 0 || (Number(value) >= 96 && Number(value) <= 320)
ValidQuality(q) ==
    /\ q.numeric
    /\ q.tenths = 0 \/ (q.tenths >= 960 /\ q.tenths <= 3200)

BodyLoad(body) ==
    IF body.kind # "array" \/ Len(body.urls) = 0 \/ ~ValidQuality(body.quality)
    THEN 1
    ELSE Load(body.urls, 1)

RECURSIVE PendingDemand(_)
PendingDemand(k) ==
    IF k = 0 THEN 0
    ELSE Demand(pending[k].urls, pending[k].at) + PendingDemand(k - 1)

RECURSIVE PendingLoad(_)
PendingLoad(k) ==
    IF k = 0 THEN 0
    ELSE Load(pending[k].urls, pending[k].at) + PendingLoad(k - 1)

\* the behaviours explored stay within MaxJobs and MaxLoad (every request
\* adds at least one to the load)
Admits(demand, load) ==
    /\ (nextId - 1) + served < MaxLoad
    /\ (nextId - 1) + PendingDemand(Len(pending)) + demand <= MaxJobs
    /\ (nextId - 1) + served + PendingLoad(Len(pending)) + load <= MaxLoad

\* the index of the first playlist URL among urls[i], urls[i+1], ...
RECURSIVE NextPlaylistAt(_, _)
NextPlaylistAt(urls, i) ==
    IF i > Len(urls) \/ IsPlaylistUrl(urls[i]) THEN i ELSE NextPlaylistAt(urls, i + 1)

\* one id handed out to every URL
IdsMutant(first, n) == [m \in 1..n |-> first]

\* n consecutive ids from `first` on, in the order they were issued
Ids(first, n) == [m \in 1..n |-> first + m - 1]

\* this.downloads.set(id, info) and processDownload(id, ...) up to its first
\* await, for each new record of recs
Launch(recs) ==
    LET new == DOMAIN recs
        ext(f, v(_)) == [i \in DOMAIN f \cup new |-> IF i \in new THEN v(i) ELSE f[i]]
    IN /\ downloads' = ext(downloads, LAMBDA i : ProcessDownloadHead(recs[i]))
       /\ pc' = ext(pc, LAMBDA i : IF ProcessDownloadSkips(recs[i]) THEN "done" ELSE "info1")
       /\ local' = ext(local, LAMBDA i : NewLocal)
       /\ hist' = ext(hist, LAMBDA i :
                      [NewHist EXCEPT !.invoked =
                          IF ProcessDownloadSkips(recs[i]) THEN {}
                          ELSE {GetVideoInfoCommand(recs[i].url)}])

\* the for loop of startDownload from urls[i] on (lines 336-392): the single
\* URLs up to the next playlist URL, then the await of processPlaylist or the
\* 202 response.  recs are the records created earlier in the same step,
\* first is the next job id, rest the other suspended requests.
LoopFrom(req, i, recs, first, rest) ==
    LET k == NextPlaylistAt(req.urls, i)
        singles == [id \in first..(first + (k - i) - 1) |->
                       NewDownloadInfo(id, req.urls[i + (id - first)])]
        downloadIds == req.downloadIds \o Ids(first, k - i)
    IN /\ Launch(recs @@ singles)
       /\ nextId' = first + (k - i)
       /\ IF k > Len(req.urls)
          THEN /\ res' = Response(202, req.urls, downloadIds, req.playlists)
               /\ pending' = rest
          ELSE /\ pending' = Append(rest, [req EXCEPT !.at = k, !.downloadIds = downloadIds,
                                                     !.cmd = PlaylistCommand(req.urls[k])])
               /\ UNCHANGED res

\* every body is answered 202
RejectsBodyMutant(body) == FALSE

\* validateStartDownload: body('urls').isArray({ min: 1 }); startDownload:
\* !urls || !Array.isArray(urls) || urls.length === 0
RejectsBody(body) == body.kind # "array" \/ Len(body.urls) = 0

\* POST /downloads/start with body {urls, quality}: validateStartDownload,
\* then startDownload
StartDownload(body) ==
    /\ NoMicrotask
    /\ Admits(Demand(body.urls, 1), BodyLoad(body))
    /\ NextPlaylistAt(body.urls, 1) <= Len(body.urls) => Len(pending) < MaxPending
    /\ IF RejectsBody(body) \/ ~ValidQuality(body.quality)
       THEN /\ res' = Response(400, <<>>, <<>>, <<>>)
            /\ served' = served + 1
            /\ UNCHANGED <<downloads, pc, local, hist, nextId, pending>>
       ELSE /\ UNCHANGED served
            /\ LoopFrom([urls |-> body.urls, at |-> 1, downloadIds |-> <<>>,
                         playlists |-> <<>>, cmd |-> NoCommand],
                        1, <<>>, nextId, pending)
    /\ UNCHANGED <<downloadProcesses, fs, nextPlaylist, streams, statuses, tag>>

\* s without its r-th element
Without(s, r) == SubSeq(s, 1, r - 1) \o SubSeq(s, r + 1, Len(s))

\* processPlaylist settled for the playlist URL a start request waits on:
\* the enumeration failed or listed nothing (500, lines 350-357), or its
\* videos become jobs (lines 447-490) and the loop of startDownload goes on
ProcessPlaylist(r, ok) ==
    /\ NoMicrotask
    /\ r \in 1..Len(pending)
    /\ LET req == pending[r]
           url == req.urls[req.at]
           videos == IF ok THEN PlaylistItems(url) ELSE <<>>
           n == Len(videos)
           videoIds == Ids(nextId, n)
           children == [id \in nextId..(nextId + n - 1) |->
                           NewChildInfo(id, videos[id - nextId + 1], nextPlaylist)]
           entry == [id |-> nextPlaylist, url |-> url, videoIds |-> videoIds,
                     status |-> "queued"]
       IN IF n = 0
          THEN /\ res' = Response(500, <<>>, <<>>, <<>>)
               /\ served' = served + 1
               /\ pending' = Without(pending, r)
               /\ UNCHANGED <<downloads, pc, local, hist, nextId, nextPlaylist>>
          ELSE /\ LoopFrom([req EXCEPT !.downloadIds = @ \o videoIds,
                                       !.playlists = Append(@, entry)],
                           req.at + 1, children, nextId + n, Without(pending, r))
               /\ nextPlaylist' = nextPlaylist + 1
               /\ UNCHANGED served
    /\ UNCHANGED <<downloadProcesses, fs, streams, statuses, tag>>

----------------------------------------------------------------------------
(* processDownload, first try block *)

\* catch of the first try block: status = 'error', then the clean-up of a
\* partial file (awaited) when one exists.
CatchFirstBlock(j, d, msg, f) ==
    /\ downloads' = [downloads EXCEPT ![j] = SetError(d, msg)]
    /\ pc' = [pc EXCEPT ![j] = IF OutputExists(f, d) THEN "cleanup1" ELSE "block2"]

\* executeYtDlp: spawn and keep the handle
Spawn(j, ordinal) ==
    /\ downloadProcesses' =
          [i \in DOMAIN downloadProcesses \cup {j} |->
              IF i = j THEN ordinal ELSE downloadProcesses[i]]
    /\ hist' = [hist EXCEPT ![j].spawns = @ + 1, ![j].live = @ + 1, ![j].exit0 = FALSE,
                            ![j].invoked = @ \cup {SpawnCommand(downloads[j].url)}]

\* getVideoInfo resolved (line 715): title, then await fs.ensureDir
InfoResolved(j) ==
    /\ pc[j] = "info1"
    /\ LET info == VideoTitle(downloads[j].url)
       IN /\ downloads' = [downloads EXCEPT
                 ![j].title = IF Truthy(info) THEN info ELSE <<"Untitled">>]
          /\ local' = [local EXCEPT ![j].info = info]
    /\ pc' = [pc EXCEPT ![j] = "ensureDir1"]
    /\ UNCHANGED <<downloadProcesses, fs, hist, nextId, http, tag>>

\* getVideoInfo rejected (line 715): caught by the first catch
InfoRejected(j) ==
    /\ pc[j] = "info1"
    /\ CatchFirstBlock(j, downloads[j], "Could not fetch video information", fs)
    /\ hist' = [hist EXCEPT ![j].fault = TRUE]
    /\ UNCHANGED <<downloadProcesses, fs, local, nextId, http, tag>>

\* executeYtDlp not awaited: the second block starts while the subprocess runs
HandleSingleDownloadMutant(j) ==
    /\ pc[j] = "ensureDir1"
    /\ ~IsPlaylistUrl(downloads[j].url)
    /\ LET outputPath == SinglePath(local[j].info, j)
       IN /\ downloads' = [downloads EXCEPT
                 ![j].outputPath = outputPath, ![j].progress = 10]
          /\ local' = [local EXCEPT ![j].procPath = outputPath]
    /\ Spawn(j, 1)
    /\ pc' = [pc EXCEPT ![j] = "block2"]
    /\ UNCHANGED <<fs, nextId, http, tag>>

\* `if (isPlaylist) ... else` (lines 726-730): handleSingleDownload followed
\* by executeYtDlp up to the spawn
HandleSingleDownload(j) ==
    /\ pc[j] = "ensureDir1"
    /\ ~IsPlaylistUrl(downloads[j].url)
    /\ LET outputPath == SinglePath(local[j].info, j)
       IN /\ downloads' = [downloads EXCEPT
                 ![j].outputPath = outputPath, ![j].progress = 10]
          /\ local' = [local EXCEPT ![j].procPath = outputPath]
    /\ Spawn(j, 1)
    /\ pc' = [pc EXCEPT ![j] = "run1"]
    /\ UNCHANGED <<fs, nextId, http, tag>>

\* `${info.title || 'playlist'}.zip` in the downloads directory (line 566)
ZipPath(infoTitle) ==
    [stem |-> IF Truthy(infoTitle) THEN infoTitle ELSE <<"playlist">>, ext |-> "zip"]

\* '%(title)s.%(ext)s' in the directory of the playlist (line 576)
PlaylistFile(infoTitle) == [stem |-> infoTitle, ext |-> "playlist-dir-mp3"]

\* `if (isPlaylist)` (line 726): handlePlaylistDownload up to its
\* await fs.ensureDir(playlistDir)
HandlePlaylistDownload(j) ==
    /\ pc[j] = "ensureDir1"
    /\ IsPlaylistUrl(downloads[j].url)
    /\ pc' = [pc EXCEPT ![j] = "playlistDir"]
    /\ UNCHANGED <<downloads, downloadProcesses, fs, local, hist, nextId, http, tag>>

\* handlePlaylistDownload, lines 566-588: outputPath is the zip file that is
\* to be created later, progress = 10, then executeYtDlp up to the spawn
PlaylistSpawn(j) ==
    /\ pc[j] = "playlistDir"
    /\ downloads' = [downloads EXCEPT
          ![j].outputPath = ZipPath(local[j].info), ![j].progress = 10]
    /\ local' = [local EXCEPT ![j].procPath = PlaylistFile(local[j].info)]
    /\ Spawn(j, 1)
    /\ pc' = [pc EXCEPT ![j] = "run1"]
    /\ UNCHANGED <<fs, nextId, http, tag>>

\* 10 + (progress * 0.8); multiples of 5 percent keep it integral
ScaleProgress(p) == 10 + (p * 8) \div 10

\* executeYtDlp: stdout 'data' handler
StdoutFirst(j, p) ==
    /\ pc[j] = "run1"
    /\ downloads[j].status = "downloading"
    /\ downloads' = [downloads EXCEPT ![j].progress = ScaleProgress(p)]
    /\ UNCHANGED <<downloadProcesses, fs, pc, local, hist, nextId, http, tag>>

\* the extraction binary writes its --output file
ProcessWrites(j, sz) ==
    /\ pc[j] \in {"run1", "run2"}
    /\ fs' = WriteFile(fs, local[j].procPath, sz)
    /\ UNCHANGED <<downloads, downloadProcesses, pc, local, hist, nextId, http, tag>>

\* the subprocess of a job has exited: one live subprocess less
Exited(h) == [h EXCEPT !.live = @ - 1]

\* the subprocess of a job has exited with code 0
ExitedZero(h) == [Exited(h) EXCEPT !.exit0 = TRUE]

\* the handle is kept when the subprocess closes
DropHandleMutant(j) == UNCHANGED downloadProcesses

\* this.downloadProcesses.delete(downloadId) (lines 214 and 847)
DropHandle(j) ==
    downloadProcesses' = [i \in DOMAIN downloadProcesses \ {j} |-> downloadProcesses[i]]

\* catch of onCloseCallback (lines 290-303): unlink what is left, status =
\* 'error', reject; the rejection reaches the first catch of processDownload.
OnCloseCallbackCatch(j, d, msg, f) ==
    LET g == IF OutputExists(f, d) THEN Unlink(f, d.outputPath) ELSE f
    IN /\ fs' = g
       /\ CatchFirstBlock(j, SetError(d, msg), msg, g)

\* onCloseCallback up to its first await
OnCloseCallback(j, code) ==
    /\ pc[j] = "run1"
    /\ DropHandle(j)
    /\ IF code # 0
       THEN /\ CatchFirstBlock(j, SetError(downloads[j], ExitMessage(code)),
                               ExitMessage(code), fs)
            /\ hist' = [hist EXCEPT ![j] = [Exited(@) EXCEPT !.exitNonZero = TRUE, !.fault = TRUE]]
            /\ UNCHANGED fs
       ELSE IF ~OutputExists(fs, downloads[j])
            THEN /\ OnCloseCallbackCatch(j, downloads[j], "Output file was not created", fs)
                 /\ hist' = [hist EXCEPT ![j] = [ExitedZero(@) EXCEPT !.fault = TRUE]]
            ELSE /\ pc' = [pc EXCEPT ![j] = "stat1"]
                 /\ hist' = [hist EXCEPT ![j] = ExitedZero(@)]
                 /\ UNCHANGED <<downloads, fs>>
    /\ UNCHANGED <<local, nextId, http, tag>>

\* the emptiness test dropped: a zero-byte file passes the check
IsEmptyFileMutant(sz) == sz < 0

\* `stats.size === 0` (lines 240 and 868)
IsEmptyFile(sz) == sz = 0

\* onCloseCallback: fs.promises.stat resolved or rejected (line 239)
OnCloseCallbackStat(j) ==
    /\ pc[j] = "stat1"
    /\ IF ~OutputExists(fs, downloads[j])
       THEN /\ OnCloseCallbackCatch(j, downloads[j], "ENOENT: no such file or directory", fs)
            /\ hist' = [hist EXCEPT ![j].fault = TRUE]
            /\ UNCHANGED local
       ELSE /\ local' = [local EXCEPT ![j].stats = fs[downloads[j].outputPath]]
            /\ pc' = [pc EXCEPT ![j] =
                  IF IsEmptyFile(fs[downloads[j].outputPath]) THEN "unlinkEmpty1" ELSE "infoMeta1"]
            /\ UNCHANGED <<downloads, fs, hist>>
    /\ UNCHANGED <<downloadProcesses, nextId, http, tag>>

\* onCloseCallback: unlink of the empty file done (line 241), then the throw
OnCloseCallbackEmpty(j) ==
    /\ pc[j] = "unlinkEmpty1"
    /\ IF OutputExists(fs, downloads[j])
       THEN OnCloseCallbackCatch(j, downloads[j], "Downloaded file is empty",
                                 Unlink(fs, downloads[j].outputPath))
       ELSE OnCloseCallbackCatch(j, downloads[j], "ENOENT: no such file or directory", fs)
    /\ hist' = [hist EXCEPT ![j].fault = TRUE]
    /\ UNCHANGED <<downloadProcesses, local, nextId, http, tag>>

\* onCloseCallback: the info query for the metadata settled (lines 246-264)
OnCloseCallbackInfo(j, ok) ==
    /\ pc[j] = "infoMeta1"
    /\ LET d == downloads[j]
           fallback == IF Truthy(d.title) THEN d.title ELSE <<"Unknown Title">>
           info == IF ok THEN VideoTitle(d.url) ELSE fallback
       IN downloads' = [downloads EXCEPT
              ![j].metadata = IF Truthy(info) THEN info ELSE <<"Unknown Title">>]
    /\ pc' = [pc EXCEPT ![j] = "tags1"]
    /\ hist' = [hist EXCEPT ![j].tagged = TRUE]
    /\ UNCHANGED <<downloadProcesses, fs, local, nextId, http, tag>>

\* lines 284-287 and 902-905: the job is finalized
Finalize(d, stats) ==
    [d EXCEPT !.status = "completed", !.progress = 100, !.size = stats]

\* lines 267-287 and 885-905: writeTags returns true or false and its result
\* is not read; what it throws is caught and logged; then the job is finalized
AfterWriteTags(d, stats, ok) == Finalize(d, stats)

\* handlePlaylistDownload after executeYtDlp resolved (lines 590-596):
\* progress = 95, status = 'processing', then createZipArchive is awaited
Packaging(d) == [d EXCEPT !.progress = 95, !.status = "processing"]

\* onCloseCallback: MetadataService.writeTags settled (lines 267-289); the
\* promise of executeYtDlp resolves and its caller goes on: the first try
\* block ends for a single video, the packaging starts for a playlist
OnCloseCallbackTagged(j, ok) ==
    /\ pc[j] = "tags1"
    /\ LET d == AfterWriteTags(downloads[j], local[j].stats, ok)
       IN IF IsPlaylistUrl(d.url)
          THEN /\ downloads' = [downloads EXCEPT ![j] = Packaging(d)]
               /\ pc' = [pc EXCEPT ![j] = "zip1"]
          ELSE /\ downloads' = [downloads EXCEPT ![j] = d]
               /\ pc' = [pc EXCEPT ![j] = "block2"]
    /\ hist' = [hist EXCEPT ![j].tagFail = @ \/ ~ok]
    /\ UNCHANGED <<downloadProcesses, fs, local, nextId, http, tag>>

\* createZipArchive resolved (lines 597-599): the write stream has replaced
\* the file at zipPath; progress = 100, status = 'completed', and the first
\* try block ends
ZipResolved(j, sz) ==
    /\ pc[j] = "zip1"
    /\ sz > 0
    /\ fs' = WriteFile(fs, downloads[j].outputPath, sz)
    /\ downloads' = [downloads EXCEPT ![j].progress = 100, ![j].status = "completed"]
    /\ pc' = [pc EXCEPT ![j] = "block2"]
    /\ UNCHANGED <<downloadProcesses, local, hist, nextId, http, tag>>

\* createZipArchive rejected (lines 604-608): the throw reaches the first
\* catch of processDownload; fs.createWriteStream (line 652) has truncated
\* the file at zipPath
ZipRejected(j, sz) ==
    /\ pc[j] = "zip1"
    /\ LET g == WriteFile(fs, downloads[j].outputPath, sz)
       IN /\ fs' = g
          /\ CatchFirstBlock(j, downloads[j],
                             "Download completed but failed to create zip", g)
    /\ hist' = [hist EXCEPT ![j].zipFail = TRUE, ![j].fault = TRUE]
    /\ UNCHANGED <<downloadProcesses, local, nextId, http, tag>>

\* the failed job is dropped from the registry after its clean-up
CleanupFirstBlockMutant(j) ==
    /\ pc[j] = "cleanup1"
    /\ fs' = IF OutputExists(fs, downloads[j]) THEN Unlink(fs, downloads[j].outputPath) ELSE fs
    /\ downloads' = [i \in DOMAIN downloads \ {j} |-> downloads[i]]
    /\ pc' = [pc EXCEPT ![j] = "block2"]
    /\ UNCHANGED <<downloadProcesses, local, hist, nextId, http, tag>>

\* first catch of processDownload: the awaited unlink settled (line 746)
CleanupFirstBlock(j) ==
    /\ pc[j] = "cleanup1"
    /\ fs' = IF OutputExists(fs, downloads[j]) THEN Unlink(fs, downloads[j].outputPath) ELSE fs
    /\ pc' = [pc EXCEPT ![j] = "block2"]
    /\ UNCHANGED <<downloads, downloadProcesses, local, hist, nextId, http, tag>>

----------------------------------------------------------------------------
(* processDownload, second try block *)

\* lines 753-761: status = 'downloading', progress = 10, await fs.ensureDir
SecondBlockStart(j) ==
    /\ pc[j] = "block2"
    /\ downloads' = [downloads EXCEPT ![j].status = "downloading", ![j].progress = 10]
    /\ pc' = [pc EXCEPT ![j] = "ensureDir2"]
    /\ UNCHANGED <<downloadProcesses, fs, local, hist, nextId, http, tag>>

\* lines 763-787: finalOutputPath, progress = 0, the info query is issued
SecondBlockPaths(j) ==
    /\ pc[j] = "ensureDir2"
    /\ downloads' = [downloads EXCEPT
          ![j].outputPath = FinalOutputPath(downloads[j].title, j),
          ![j].status = "downloading",
          ![j].progress = 0]
    /\ pc' = [pc EXCEPT ![j] = "info2"]
    /\ UNCHANGED <<downloadProcesses, fs, local, hist, nextId, http, tag>>

\* inner catch (lines 926-948): unlinkSync of the file at outputPath, then
\* status = 'error'; processDownload returns normally.
SecondBlockCatch(j, msg) ==
    /\ fs' = IF OutputExists(fs, downloads[j]) THEN Unlink(fs, downloads[j].outputPath) ELSE fs
    /\ downloads' = [downloads EXCEPT ![j] = SetError(@, msg)]
    /\ pc' = [pc EXCEPT ![j] = "done"]

\* getVideoInfo resolved (line 787): the second spawn, or the throw on an
\* empty title
SecondInfoResolved(j) ==
    /\ pc[j] = "info2"
    /\ LET info == VideoTitle(downloads[j].url)
       IN IF ~Truthy(info)
          THEN /\ SecondBlockCatch(j, "Could not get video title")
               /\ UNCHANGED <<downloadProcesses, local, hist>>
          ELSE /\ downloads' = [downloads EXCEPT
                     ![j].title = info, ![j].outputPath = TitleOutputPath(info)]
               /\ local' = [local EXCEPT
                     ![j].info = info, ![j].procPath = TitleOutputPath(info)]
               /\ Spawn(j, 2)
               /\ pc' = [pc EXCEPT ![j] = "run2"]
               /\ UNCHANGED fs
    /\ UNCHANGED <<nextId, http, tag>>

\* getVideoInfo rejected (line 787)
SecondInfoRejected(j) ==
    /\ pc[j] = "info2"
    /\ SecondBlockCatch(j, "Could not fetch video information")
    /\ hist' = [hist EXCEPT ![j].fault = TRUE]
    /\ UNCHANGED <<downloadProcesses, local, nextId, http, tag>>

\* stdout 'data' handler of the second spawn (lines 827-835)
StdoutSecond(j, p) ==
    /\ pc[j] = "run2"
    /\ downloads' = [downloads EXCEPT ![j].progress = p]
    /\ UNCHANGED <<downloadProcesses, fs, pc, local, hist, nextId, http, tag>>

\* a rejection of the promise returned at line 845 rejects processDownload;
\* the catch handler of startDownload (lines 375-383) records it.
StartDownloadCatch(j, d, msg) ==
    /\ downloads' = [downloads EXCEPT ![j] = SetError(d, msg)]
    /\ pc' = [pc EXCEPT ![j] = "done"]

\* catch of onClose (lines 908-921)
OnCloseCatch(j, d, msg, f) ==
    /\ fs' = IF OutputExists(f, d) THEN Unlink(f, d.outputPath) ELSE f
    /\ StartDownloadCatch(j, SetError(d, msg), msg)

\* onClose of the second spawn up to its first await (lines 846-867)
OnClose(j, code) ==
    /\ pc[j] = "run2"
    /\ DropHandle(j)
    /\ IF code # 0
       THEN /\ StartDownloadCatch(j, SetError(downloads[j], ExitMessage(code)),
                                  ExitMessage(code))
            /\ hist' = [hist EXCEPT ![j] = [Exited(@) EXCEPT !.exitNonZero = TRUE, !.fault = TRUE]]
            /\ UNCHANGED fs
       ELSE IF ~OutputExists(fs, downloads[j])
            THEN /\ OnCloseCatch(j, downloads[j], "Output file was not created", fs)
                 /\ hist' = [hist EXCEPT ![j] = [ExitedZero(@) EXCEPT !.fault = TRUE]]
            ELSE /\ pc' = [pc EXCEPT ![j] = "stat2"]
                 /\ hist' = [hist EXCEPT ![j] = ExitedZero(@)]
                 /\ UNCHANGED <<downloads, fs>>
    /\ UNCHANGED <<local, nextId, http, tag>>

\* onClose: fs.promises.stat settled (line 867); the metadata come from the
\* info of line 787, then writeTags is awaited
OnCloseStat(j) ==
    /\ pc[j] = "stat2"
    /\ IF ~OutputExists(fs, downloads[j])
       THEN /\ OnCloseCatch(j, downloads[j], "ENOENT: no such file or directory", fs)
            /\ hist' = [hist EXCEPT ![j].fault = TRUE]
            /\ UNCHANGED local
       ELSE LET sz == fs[downloads[j].outputPath]
            IN /\ local' = [local EXCEPT ![j].stats = sz]
               /\ pc' = [pc EXCEPT ![j] = IF IsEmptyFile(sz) THEN "unlinkEmpty2" ELSE "tags2"]
               /\ downloads' = [downloads EXCEPT
                     ![j].metadata = IF IsEmptyFile(sz) THEN @ ELSE local[j].info]
               /\ hist' = [hist EXCEPT ![j].tagged = @ \/ ~IsEmptyFile(sz)]
               /\ UNCHANGED fs
    /\ UNCHANGED <<downloadProcesses, nextId, http, tag>>

\* onClose: unlink of the empty file done (line 869), then the throw
OnCloseEmpty(j) ==
    /\ pc[j] = "unlinkEmpty2"
    /\ IF OutputExists(fs, downloads[j])
       THEN OnCloseCatch(j, downloads[j], "Downloaded file is empty",
                         Unlink(fs, downloads[j].outputPath))
       ELSE OnCloseCatch(j, downloads[j], "ENOENT: no such file or directory", fs)
    /\ hist' = [hist EXCEPT ![j].fault = TRUE]
    /\ UNCHANGED <<downloadProcesses, local, nextId, http, tag>>

\* onClose: MetadataService.writeTags settled (lines 885-907)
OnCloseTagged(j, ok) ==
    /\ pc[j] = "tags2"
    /\ downloads' = [downloads EXCEPT ![j] = AfterWriteTags(@, local[j].stats, ok)]
    /\ hist' = [hist EXCEPT ![j].tagFail = @ \/ ~ok]
    /\ pc' = [pc EXCEPT ![j] = "done"]
    /\ UNCHANGED <<downloadProcesses, fs, local, nextId, http, tag>>

----------------------------------------------------------------------------
(* downloadFile *)

\* the status of the job is not looked at
NotReadyMutant(id) ==
    \/ id \notin Created
    \/ downloads[id].outputPath = NoPath

\* line 977: !download || download.status !== 'completed' || !download.outputPath
NotReady(id) ==
    \/ id \notin Created
    \/ downloads[id].status # "completed"
    \/ downloads[id].outputPath = NoPath

\* GET /downloads/:id/file up to its first await (lines 964-993): the 404
\* answers, or the stat of the output file is awaited
DownloadFile(id) ==
    /\ Admits(0, 1)
    /\ NoMicrotask
    /\ Len(streams) < MaxStreams
    /\ served' = served + 1
    /\ IF NotReady(id)
       THEN /\ res' = Response(404, <<>>, <<>>, <<>>)
            /\ UNCHANGED streams
       ELSE IF ~Exists(fs, downloads[id].outputPath)
            THEN /\ res' = Response(404, <<>>, <<>>, <<>>)
                 /\ UNCHANGED streams
            ELSE /\ streams' = Append(streams, [id |-> id, pc |-> "stat"])
                 /\ UNCHANGED res
    /\ UNCHANGED <<downloads, downloadProcesses, fs, pc, local, hist, nextId,
                   nextPlaylist, pending, statuses, tag>>

\* downloadFile: fs.promises.stat settled (line 993); the headers are set and
\* the read stream is created and piped, or the catch answers 500
DownloadFileStat(k) ==
    /\ k \in 1..Len(streams)
    /\ streams[k].pc = "stat"
    /\ IF Exists(fs, downloads[streams[k].id].outputPath)
       THEN /\ streams' = [streams EXCEPT ![k].pc = "open"]
            /\ UNCHANGED res
       ELSE /\ streams' = Without(streams, k)
            /\ res' = Response(500, <<>>, <<>>, <<>>)
    /\ UNCHANGED <<downloads, downloadProcesses, fs, pc, local, hist, nextId,
                   nextPlaylist, pending, served, statuses, tag>>

\* the read stream opened its file and the response begins (lines 1024,
\* 1040), or its 'error' handler answers 500 (lines 1008-1022)
StreamOpen(k) ==
    /\ k \in 1..Len(streams)
    /\ streams[k].pc = "open"
    /\ IF Exists(fs, downloads[streams[k].id].outputPath)
       THEN /\ streams' = [streams EXCEPT ![k].pc = "piping"]
            /\ res' = Response(200, <<>>, <<>>, <<>>)
       ELSE /\ streams' = Without(streams, k)
            /\ res' = Response(500, <<>>, <<>>, <<>>)
    /\ UNCHANGED <<downloads, downloadProcesses, fs, pc, local, hist, nextId,
                   nextPlaylist, pending, served, statuses, tag>>

\* the file was sent to its end (line 1028)
StreamEnd(k) ==
    /\ k \in 1..Len(streams)
    /\ streams[k].pc = "piping"
    /\ streams' = Without(streams, k)
    /\ UNCHANGED <<downloads, downloadProcesses, fs, pc, local, hist, nextId,
                   nextPlaylist, pending, res, served, statuses, tag>>

\* the client closed the connection: fileStream.destroy() (lines 1032-1037)
RequestClosed(k) ==
    /\ k \in 1..Len(streams)
    /\ streams[k].pc \in {"open", "piping"}
    /\ streams' = Without(streams, k)
    /\ UNCHANGED <<downloads, downloadProcesses, fs, pc, local, hist, nextId,
                   nextPlaylist, pending, res, served, statuses, tag>>

----------------------------------------------------------------------------
(* getDownloadStatus *)

\* what a client may pass as ?ids=: job ids and an id no job has
IdLists == UNION {[1..n -> 1..(MaxJobs + 1)] : n \in 0..MaxUrls}

\* lines 402-414: the entry of one job
StatusEntry(d) ==
    [id |-> d.id, url |-> d.url, status |-> d.status, progress |-> d.progress,
     title |-> d.title,
     filePath |-> IF d.status = "completed" /\ d.outputPath # NoPath
                  THEN d.outputPath ELSE NoPath,
     size |-> d.size, error |-> d.error]

\* Array.from(this.downloads.entries()).map(...): one entry per job of the
\* registry in insertion order, which is the order the ids were issued in
StatusEntries(ds) == [m \in 1..Cardinality(DOMAIN ds) |-> StatusEntry(ds[m])]

\* a poll that drops the jobs it reports as completed
GetDownloadStatusMutant(ids) ==
    /\ Admits(0, 1)
    /\ NoMicrotask
    /\ served' = served + 1
    /\ statuses' = StatusEntries(downloads)
    /\ res' = Response(200, <<>>, <<>>, <<>>)
    /\ downloads' = [j \in {i \in Created : downloads[i].status # "completed"} |-> downloads[j]]
    /\ UNCHANGED <<downloadProcesses, fs, pc, local, hist, nextId,
                   nextPlaylist, pending, streams, tag>>

\* GET /downloads/status?ids=...: req.query is not read
GetDownloadStatus(ids) ==
    /\ Admits(0, 1)
    /\ NoMicrotask
    /\ served' = served + 1
    /\ statuses' = StatusEntries(downloads)
    /\ res' = Response(200, <<>>, <<>>, <<>>)
    /\ UNCHANGED <<downloads, downloadProcesses, fs, pc, local, hist, nextId,
                   nextPlaylist, pending, streams, tag>>

----------------------------------------------------------------------------
(* The specification *)

Next ==
    \/ \E body \in Bodies : StartDownload(body)
    \/ \E r \in 1..MaxPending : \E ok \in BOOLEAN : ProcessPlaylist(r, ok)
    \/ \E j \in Created : InfoResolved(j)
    \/ \E j \in Created : InfoRejected(j)
    \/ \E j \in Created : HandleSingleDownload(j)
    \/ \E j \in Created : \E p \in Percents : StdoutFirst(j, p)
    \/ \E j \in Created : \E sz \in FileSizes : ProcessWrites(j, sz)
    \/ \E j \in Created : \E code \in ExitCodes : OnCloseCallback(j, code)
    \/ \E j \in Created : OnCloseCallbackStat(j)
    \/ \E j \in Created : OnCloseCallbackEmpty(j)
    \/ \E j \in Created : \E ok \in BOOLEAN : OnCloseCallbackInfo(j, ok)
    \/ \E j \in Created : \E ok \in BOOLEAN : OnCloseCallbackTagged(j, ok)
    \/ \E j \in Created : CleanupFirstBlock(j)
    \/ \E j \in Created : SecondBlockStart(j)
    \/ \E j \in Created : SecondBlockPaths(j)
    \/ \E j \in Created : SecondInfoResolved(j)
    \/ \E j \in Created : SecondInfoRejected(j)
    \/ \E j \in Created : \E p \in Percents : StdoutSecond(j, p)
    \/ \E j \in Created : \E code \in ExitCodes : OnClose(j, code)
    \/ \E j \in Created : OnCloseStat(j)
    \/ \E j \in Created : OnCloseEmpty(j)
    \/ \E j \in Created : \E ok \in BOOLEAN : OnCloseTagged(j, ok)
    \/ \E id \in JobIds : DownloadFile(id)
    \/ \E k \in 1..MaxStreams : DownloadFileStat(k)
    \/ \E k \in 1..MaxStreams : StreamOpen(k)
    \/ \E k \in 1..MaxStreams : StreamEnd(k)
    \/ \E k \in 1..MaxStreams : RequestClosed(k)
    \/ \E ids \in IdLists : GetDownloadStatus(ids)

Spec == Init /\ [][Next]_vars

\* The steps of job j that the environment owes: every query, subprocess
\* and file operation eventually settles.  Output lines and file writes of
\* a running subprocess are not owed.
JobStep(j) ==
    /\ j \in Created
    /\ \/ InfoResolved(j) \/ InfoRejected(j) \/ HandleSingleDownload(j)
       \/ \E code \in ExitCodes : OnCloseCallback(j, code)
       \/ OnCloseCallbackStat(j) \/ OnCloseCallbackEmpty(j)
       \/ \E ok \in BOOLEAN : OnCloseCallbackInfo(j, ok)
       \/ \E ok \in BOOLEAN : OnCloseCallbackTagged(j, ok)
       \/ CleanupFirstBlock(j) \/ SecondBlockStart(j) \/ SecondBlockPaths(j)
       \/ SecondInfoResolved(j) \/ SecondInfoRejected(j)
       \/ \E code \in ExitCodes : OnClose(j, code)
       \/ OnCloseStat(j) \/ OnCloseEmpty(j)
       \/ \E ok \in BOOLEAN : OnCloseTagged(j, ok)

FairSpec == Spec /\ \A j \in JobIds : WF_vars(JobStep(j))

----------------------------------------------------------------------------
(* A subprocess that fails to start *)

\* spawn('yt-dlp', args) when the binary cannot be started: the handle is
\* stored all the same (lines 619 and 823) and no process runs.  The
\* ChildProcess emits 'error'; neither executeYtDlp (lines 616-643) nor the
\* second pass (lines 820-924) listens for it, so the event is thrown to the
\* uncaughtException handler (lines 124-128), which logs it, and 'close' is
\* not emitted.
SpawnError(j, ordinal) ==
    /\ downloadProcesses' =
          [i \in DOMAIN downloadProcesses \cup {j} |->
              IF i = j THEN ordinal ELSE downloadProcesses[i]]
    /\ hist' = [hist EXCEPT ![j].spawns = @ + 1, ![j].exit0 = FALSE,
                            ![j].invoked = @ \cup {SpawnCommand(downloads[j].url)}]

\* handleSingleDownload with a spawn that fails to start
SpawnErrorFirst(j) ==
    /\ pc[j] = "ensureDir1"
    /\ ~IsPlaylistUrl(downloads[j].url)
    /\ LET outputPath == SinglePath(local[j].info, j)
       IN /\ downloads' = [downloads EXCEPT
                 ![j].outputPath = outputPath, ![j].progress = 10]
          /\ local' = [local EXCEPT ![j].procPath = outputPath]
    /\ SpawnError(j, 1)
    /\ pc' = [pc EXCEPT ![j] = "noClose1"]
    /\ UNCHANGED <<fs, nextId, http, tag>>

\* the second pass (line 820) with a spawn that fails to start
SpawnErrorSecond(j) ==
    /\ pc[j] = "info2"
    /\ LET info == VideoTitle(downloads[j].url)
       IN /\ Truthy(info)
          /\ downloads' = [downloads EXCEPT
                ![j].title = info, ![j].outputPath = TitleOutputPath(info)]
          /\ local' = [local EXCEPT
                ![j].info = info, ![j].procPath = TitleOutputPath(info)]
    /\ SpawnError(j, 2)
    /\ pc' = [pc EXCEPT ![j] = "noClose2"]
    /\ UNCHANGED <<fs, nextId, http, tag>>

SpawnNext ==
    \/ Next
    \/ \E j \in Created : SpawnErrorFirst(j)
    \/ \E j \in Created : SpawnErrorSecond(j)

\* The controller with the environment of FairSpec, in which an invocation
\* of the extraction binary may also fail to start.
SpawnSpec == Init /\ [][SpawnNext]_vars /\ \A j \in JobIds : WF_vars(JobStep(j))

----------------------------------------------------------------------------
(* The packaging of a playlist *)

\* The controller after startDownload answered a request for p3 and
\* processPlaylist made a job of its entry p1, a URL with a `list`
\* parameter (lines 451-488).  The downloads directory is empty or holds a
\* zip file of an earlier run under the name the packaging will use.
ZipInit ==
    /\ downloads = [i \in {1} |-> ProcessDownloadHead(NewChildInfo(1, "p1", 1))]
    /\ downloadProcesses = <<>>
    /\ fs \in {<<>>} \cup {[q \in {ZipPath(VideoTitle("p1"))} |-> sz] : sz \in FileSizes}
    /\ pc = [i \in {1} |-> "info1"]
    /\ local = [i \in {1} |-> NewLocal]
    /\ hist = [i \in {1} |-> [NewHist EXCEPT !.invoked = {GetVideoInfoCommand("p1")}]]
    /\ nextId = 2
    /\ nextPlaylist = 2
    /\ pending = <<>>
    /\ streams = <<>>
    /\ res = Response(202, <<"p3">>, <<1>>,
                      <<[id |-> 1, url |-> "p3", videoIds |-> <<1>>, status |-> "queued"]>>)
    /\ served = 0
    /\ statuses = <<>>
    /\ tag = NoTag

ZipNext ==
    \/ \E j \in Created : InfoResolved(j)
    \/ \E j \in Created : InfoRejected(j)
    \/ \E j \in Created : HandlePlaylistDownload(j)
    \/ \E j \in Created : PlaylistSpawn(j)
    \/ \E j \in Created : \E p \in Percents : StdoutFirst(j, p)
    \/ \E j \in Created : \E sz \in FileSizes : ProcessWrites(j, sz)
    \/ \E j \in Created : \E code \in ExitCodes : OnCloseCallback(j, code)
    \/ \E j \in Created : OnCloseCallbackStat(j)
    \/ \E j \in Created : OnCloseCallbackEmpty(j)
    \/ \E j \in Created : \E ok \in BOOLEAN : OnCloseCallbackInfo(j, ok)
    \/ \E j \in Created : \E ok \in BOOLEAN : OnCloseCallbackTagged(j, ok)
    \/ \E j \in Created : \E sz \in FileSizes : ZipResolved(j, sz)
    \/ \E j \in Created : \E sz \in FileSizes : ZipRejected(j, sz)
    \/ \E j \in Created : CleanupFirstBlock(j)
    \/ \E j \in Created : SecondBlockStart(j)
    \/ \E j \in Created : SecondBlockPaths(j)
    \/ \E j \in Created : SecondInfoResolved(j)
    \/ \E j \in Created : SecondInfoRejected(j)
    \/ \E j \in Created : \E p \in Percents : StdoutSecond(j, p)
    \/ \E j \in Created : \E code \in ExitCodes : OnClose(j, code)
    \/ \E j \in Created : OnCloseStat(j)
    \/ \E j \in Created : OnCloseEmpty(j)
    \/ \E j \in Created : \E ok \in BOOLEAN : OnCloseTagged(j, ok)

\* One job of a URL with a `list` parameter, from processDownload on.
ZipSpec == ZipInit /\ [][ZipNext]_vars

----------------------------------------------------------------------------
(* MetadataService.writeTags *)

\* The tag values a file may carry before the call and the titles a call
\* may be asked to write.
FileTags == {"none", "old", "t1"}

MetaTitles == {"t1", "t2"}

\* no file at a path
Absent == [audio |-> "absent", tags |-> "none"]

\* an MP3 file: its audio data and its tags
Mp3File(tags) == [audio |-> "ok", tags |-> tags]

\* what a write that broke off may leave behind
Damaged == [audio |-> "damaged", tags |-> "none"]

\* writeTags(filePath, metadata) called: file is the content at filePath,
\* bak the content at `${filePath}.bak`; orig, wrote and lastRename record
\* the content at the call, what NodeID3.write and the read-back did and how
\* the last rename of the backup ended
StartTag(file, title) ==
    [pc |-> "access", file |-> file, bak |-> Absent, title |-> title,
     result |-> "none", orig |-> file, wrote |-> "none", lastRename |-> "none"]

\* writeTags returns ok
Return(t, ok) == [t EXCEPT !.pc = "done", !.result = IF ok THEN "true" ELSE "false"]

\* lines 75-83: fs.access and fs.stat settled; a failure is rethrown and
\* caught at line 271
TagAccess(ok) ==
    /\ tag.pc = "access"
    /\ tag' = IF ok /\ tag.file # Absent
              THEN [tag EXCEPT !.pc = "parse"]
              ELSE Return(tag, FALSE)

\* lines 86-216: mm.parseFile settled (a failure is replaced by empty
\* metadata), the tags are prepared and fs.copyFile is called
TagParse ==
    /\ tag.pc = "parse"
    /\ tag' = [tag EXCEPT !.pc = "copy"]

\* the outcomes of NodeID3.write followed by NodeID3.read
WriteOutcomes == {"verified", "unverified", "false", "threw"}

\* the content of the file after NodeID3.write: the new tags when it
\* returned true, else the old content or a damaged file
AfterWrite(t, outcome, damaged) ==
    IF outcome \in {"verified", "unverified"} THEN Mp3File(t.title)
    ELSE IF damaged THEN Damaged
    ELSE t.file

\* the result of fs.copyFile is not awaited: the write goes ahead without
\* a backup when the copy fails
TagCopiedMutant(ok, outcome, damaged) ==
    /\ tag.pc = "copy"
    /\ tag' = [tag EXCEPT !.bak = IF ok THEN tag.file ELSE Absent,
                          !.file = AfterWrite(tag, outcome, damaged),
                          !.wrote = outcome,
                          !.pc = CASE outcome = "verified" -> "unlink"
                                   [] outcome = "threw" -> "restoreCatch"
                                   [] OTHER -> "restore"]

\* lines 216-257: fs.copyFile settled; a failure is caught at line 262
\* (Node removes what it had copied).
\* Else NodeID3.write and NodeID3.read run, then the unlink of the backup
\* (line 237) or its rename over the file (lines 245, 251, 257) is awaited.
TagCopied(ok, outcome, damaged) ==
    /\ tag.pc = "copy"
    /\ IF ~ok
       THEN tag' = Return(tag, FALSE)
       ELSE tag' = [tag EXCEPT !.bak = tag.file,
                               !.file = AfterWrite(tag, outcome, damaged),
                               !.wrote = outcome,
                               !.pc = CASE outcome = "verified" -> "unlink"
                                        [] outcome = "threw" -> "restoreCatch"
                                        [] OTHER -> "restore"]

\* lines 237-241: the unlink of the backup settled; its failure is logged
TagUnlinked(ok) ==
    /\ tag.pc = "unlink"
    /\ tag' = Return([tag EXCEPT !.bak = IF ok THEN Absent ELSE @], TRUE)

\* fs.rename(backupPath, filePath) done
Renamed(t) == [t EXCEPT !.file = t.bak, !.bak = Absent, !.lastRename = "ok"]

\* the backup is removed and the file left as the write made it
RestoreMutant(t) == [t EXCEPT !.bak = Absent, !.lastRename = "ok"]

\* lines 245 and 251: the awaited rename of the backup over the file
Restore(t) == Renamed(t)

\* lines 245-246 and 251-252: the rename settled; its failure is thrown to
\* the catch of line 254, which renames again
TagRestored(ok) ==
    /\ tag.pc = "restore"
    /\ tag' = IF ok THEN Return(Restore(tag), FALSE)
              ELSE [tag EXCEPT !.pc = "restoreCatch", !.lastRename = "failed"]

\* lines 257-260: the rename of the catch settled; its failure is logged
TagRestoredCatch(ok) ==
    /\ tag.pc = "restoreCatch"
    /\ tag' = IF ok THEN Return(Renamed(tag), FALSE)
              ELSE Return([tag EXCEPT !.lastRename = "failed"], FALSE)

\* the controller's state, which writeTags does not touch
controller == <<downloads, downloadProcesses, fs, pc, local, hist, nextId, http>>

TagInit ==
    /\ downloads = <<>>
    /\ downloadProcesses = <<>>
    /\ fs = <<>>
    /\ pc = <<>>
    /\ local = <<>>
    /\ hist = <<>>
    /\ nextId = 1
    /\ nextPlaylist = 1
    /\ pending = <<>>
    /\ streams = <<>>
    /\ res = NoRes
    /\ served = 0
    /\ statuses = <<>>
    /\ tag \in {StartTag(file, title) :
                    file \in {Mp3File(t) : t \in FileTags} \cup {Absent},
                    title \in MetaTitles}

TagNext ==
    \/ \E ok \in BOOLEAN : TagAccess(ok) /\ UNCHANGED controller
    \/ TagParse /\ UNCHANGED controller
    \/ \E ok, damaged \in BOOLEAN : \E outcome \in WriteOutcomes :
          TagCopied(ok, outcome, damaged) /\ UNCHANGED controller
    \/ \E ok \in BOOLEAN : TagUnlinked(ok) /\ UNCHANGED controller
    \/ \E ok \in BOOLEAN : TagRestored(ok) /\ UNCHANGED controller
    \/ \E ok \in BOOLEAN : TagRestoredCatch(ok) /\ UNCHANGED controller

\* one call of writeTags on a file of the downloads directory
TagSpec == TagInit /\ [][TagNext]_vars

----------------------------------------------------------------------------
(* MetadataService.writeTags: the tags it prepares *)

\* an absent (undefined) or empty value: both are falsy for `||` and `?:`
NoValue == ""

\* common.year is a number or undefined
NoYear == 0 - 1

\* common.genre is a list of names or undefined
NoGenre == <<>>

\* The Metadata a caller may pass (title, artist, album, year and genre are
\* strings or absent) and the common tags mm.parseFile may find in the file.
Metadatas ==
    [title : {NoValue, "t1"}, artist : {NoValue, "a1"}, album : {NoValue, "b1"},
     year : {NoValue, "2024"}, genre : {NoValue, "Music"}]

CommonSets ==
    [title : {NoValue, "old"}, artist : {NoValue, "a0"}, album : {NoValue, "b0"},
     year : {NoYear, 1999}, genre : {NoGenre, <<"Rock">>}]

\* the `common` of the minimal metadata object of lines 93-111
EmptyCommon ==
    [title |-> NoValue, artist |-> NoValue, album |-> NoValue,
     year |-> NoYear, genre |-> NoGenre]

\* parseInt(s, 10) of a decimal numeral
ParseInt(str) == CHOOSE n \in 0..9999 : ToString(n) = str

\* the tags of the file win over the metadata passed in
CommonTagsMutant(m, e) ==
    [title  |-> IF e.title # NoValue THEN e.title ELSE m.title,
     artist |-> IF e.artist # NoValue THEN e.artist ELSE m.artist,
     album  |-> IF e.album # NoValue THEN e.album
                ELSE IF m.album # NoValue THEN m.album ELSE "Unknown Album",
     year   |-> IF e.year # NoYear THEN e.year
                ELSE IF m.year # NoValue THEN ParseInt(m.year) ELSE NoYear,
     genre  |-> IF e.genre # NoGenre THEN e.genre
                ELSE IF m.genre # NoValue THEN <<m.genre>> ELSE <<"Unknown Genre">>]

\* commonTags (lines 115-135), the fields written
CommonTags(m, e) ==
    [title  |-> IF m.title # NoValue THEN m.title ELSE e.title,
     artist |-> IF m.artist # NoValue THEN m.artist ELSE e.artist,
     album  |-> IF m.album # NoValue THEN m.album
                ELSE IF e.album # NoValue THEN e.album ELSE "Unknown Album",
     year   |-> IF m.year # NoValue THEN ParseInt(m.year) ELSE e.year,
     genre  |-> IF m.genre # NoValue THEN <<m.genre>>
                ELSE IF e.genre # NoGenre THEN e.genre ELSE <<"Unknown Genre">>]

\* the tags handed to NodeID3.write (lines 178-184): year?.toString() and
\* the first genre
TagsToWrite(c) ==
    [title |-> c.title, artist |-> c.artist, album |-> c.album,
     year |-> IF c.year = NoYear THEN NoValue ELSE ToString(c.year),
     genre |-> c.genre[1]]

\* writeTags(filePath, metadata) past its access check: onFile are the
\* common tags of the file, existing what the call takes them to be
StartMerge(metadata, onFile) ==
    [pc |-> "parse", metadata |-> metadata, onFile |-> onFile,
     parsed |-> FALSE, existing |-> EmptyCommon, tags |-> EmptyCommon,
     result |-> "none"]

\* lines 86-216: mm.parseFile settled (a failure is replaced by the minimal
\* metadata object), commonTags and tags are prepared and fs.copyFile is
\* called
MergeParse(ok) ==
    /\ tag.pc = "parse"
    /\ LET existing == IF ok THEN tag.onFile ELSE EmptyCommon
       IN tag' = [tag EXCEPT !.pc = "copy", !.parsed = ok, !.existing = existing,
                             !.tags = TagsToWrite(CommonTags(tag.metadata, existing))]

MergeInit ==
    /\ downloads = <<>>
    /\ downloadProcesses = <<>>
    /\ fs = <<>>
    /\ pc = <<>>
    /\ local = <<>>
    /\ hist = <<>>
    /\ nextId = 1
    /\ nextPlaylist = 1
    /\ pending = <<>>
    /\ streams = <<>>
    /\ res = NoRes
    /\ served = 0
    /\ statuses = <<>>
    /\ tag \in {StartMerge(m, e) : m \in Metadatas, e \in CommonSets}

MergeNext == \E ok \in BOOLEAN : MergeParse(ok) /\ UNCHANGED controller

\* One call of writeTags from the read of the existing tags to the tags it
\* hands to NodeID3.write.
MergeSpec == MergeInit /\ [][MergeNext]_vars

----------------------------------------------------------------------------
(* Properties *)

Terminal(d) == d.status \in {"completed", "error"}

Running(j) == pc[j] \in {"run1", "run2"}

\* C1: once a step has set a job's status to completed or error, no later
\* step changes that job's status.
C1_TerminalStatusIsFinal ==
    [][\A j \in Created :
          Terminal(downloads[j]) => downloads'[j].status = downloads[j].status]_vars

\* C2: a job whose processing has ended in status error has no file at its
\* outputPath.
C2_NoFileAfterError ==
    \A j \in Created :
        (pc[j] = "done" /\ downloads[j].status = "error")
            => ~OutputExists(fs, downloads[j])

\* C3: while a job's status stays downloading, no step lowers its progress.
C3_ProgressNeverDecreases ==
    [][\A j \in Created :
          (downloads[j].status = "downloading" /\ downloads'[j].status = "downloading")
              => downloads'[j].progress >= downloads[j].progress]_vars

\* C4: a job's progress is 100 exactly when its status is completed.
C4_HundredIffCompleted ==
    \A j \in Created :
        (downloads[j].progress = 100) <=> (downloads[j].status = "completed")

\* C5: over a job's lifetime never more than one extraction subprocess is
\* spawned for it.
C5_AtMostOneSpawn ==
    \A j \in Created : hist[j].spawns <= 1

Completed(j) ==
    /\ pc[j] = "done"
    /\ downloads[j].status = "completed"
    /\ downloads[j].progress = 100
    /\ downloads[j].size > 0

\* C6: a job none of whose info queries was rejected, none of whose
\* extraction subprocesses exited non-zero and none of whose output files was
\* missing or empty eventually is, and from then on stays, completed with
\* progress 100 and size > 0 (what a later status poll reads).
C6_EventuallyCompleted ==
    /\ [](\A j \in Created :
             (pc[j] = "done" /\ ~hist[j].fault) => Completed(j))
    /\ \A j \in JobIds :
          <>[](j \in Created => (hist[j].fault \/ Completed(j)))

\* C7: after a non-zero exit of its extraction subprocess a job is in
\* status error, its error names the exit code, and it stays so.
C7_NonZeroExitEndsInError ==
    \A j \in Created :
        hist[j].exitNonZero
            => /\ downloads[j].status = "error"
               /\ downloads[j].error = ExitMessage(1)

\* C8: a job for which writeTags failed after its output was verified ends
\* completed with progress 100.
C8_TagFailureStillCompleted ==
    \A j \in Created :
        (hist[j].tagFail /\ pc[j] = "done")
            => /\ downloads[j].status = "completed"
               /\ downloads[j].progress = 100

Checked(j) == pc[j] \in {"infoMeta1", "tags1", "tags2"}

\* C9: a job becomes completed only from the step that follows a stat of
\* its output file with size > 0, and its size is that size; a close with
\* exit code 0 that finds no file, and the removal of a zero-byte file, leave
\* the job in status error, the zero-byte file gone; an empty or missing
\* file never passes the check.
C9_CompletedOnlyIfVerified ==
    /\ [](\A j \in Created :
             /\ downloads[j].status = "completed" => downloads[j].size > 0
             /\ Checked(j) => local[j].stats > 0)
    /\ [][\A j \in Created :
             /\ (downloads'[j].status = "completed" /\ downloads[j].status # "completed")
                   => /\ pc[j] \in {"tags1", "tags2"}
                      /\ local[j].stats > 0
                      /\ downloads'[j].size = local[j].stats
             /\ (Running(j) /\ ~Running(j)' /\ ~OutputExists(fs, downloads[j]))
                   => downloads'[j].status = "error"
             /\ (pc[j] \in {"stat1", "stat2"} /\ pc'[j] # pc[j])
                   => \/ Checked(j)' /\ OutputExists(fs, downloads[j])
                                     /\ fs[downloads[j].outputPath] > 0
                      \/ pc'[j] \in {"unlinkEmpty1", "unlinkEmpty2"}
                            /\ OutputExists(fs, downloads[j])
                            /\ fs[downloads[j].outputPath] = 0
                      \/ downloads'[j].status = "error" /\ ~OutputExists(fs, downloads[j])
             /\ (pc[j] \in {"unlinkEmpty1", "unlinkEmpty2"} /\ pc'[j] # pc[j])
                   => /\ downloads'[j].status = "error"
                      /\ ~OutputExists(fs', downloads'[j])]_vars

C9_Witness ==
    /\ \E j \in Created : Completed(j) /\ downloads[j].size = local[j].stats
    /\ \E j \in Created : downloads[j].error = "Downloaded file is empty"
                            /\ downloads[j].status = "error"
                            /\ ~OutputExists(fs, downloads[j])

\* C10: the outputPath of a job whose extraction is running differs from
\* the outputPath of every other job.
C10_DistinctOutputPaths ==
    \A i, j \in Created :
        (i # j /\ Running(i)) => downloads[i].outputPath # downloads[j].outputPath

----------------------------------------------------------------------------
(* Playlists and requests *)

Siblings(i, j) ==
    /\ i # j
    /\ downloads[i].playlistId # NoPlaylist
    /\ downloads[i].playlistId = downloads[j].playlistId

\* a step in which job i fails: its status becomes error, or the clean-up
\* after its failure runs
FailureStep(i) ==
    \/ downloads[i].status # "error" /\ downloads'[i].status = "error"
    \/ pc[i] = "cleanup1" /\ pc'[i] # "cleanup1"

\* the size of the file at the outputPath of d, NoSize when there is none
FileAt(f, d) == IF OutputExists(f, d) THEN f[d.outputPath] ELSE NoSize

\* C11: a step in which a playlist child fails changes neither the record
\* (status, progress, error) nor the output file of a sibling, and every
\* child eventually is, and stays, in a terminal state with its processing
\* at its end.
C11_SiblingsIndependent ==
    /\ [][\A i, j \in Created :
             (Siblings(i, j) /\ FailureStep(i))
                 => /\ downloads'[j] = downloads[j]
                    /\ FileAt(fs', downloads[j]) = FileAt(fs, downloads[j])]_vars
    /\ \A j \in JobIds :
          <>[](j \in Created => (pc[j] = "done" /\ Terminal(downloads[j])))

\* the jobs of the registry ds that carry playlist id p
Members(ds, p) == {j \in DOMAIN ds : ds[j].playlistId = p}

\* the playlist entries of the responses: of the one sent last and of those
\* that suspended start requests have collected
Entries(r, pend) ==
    {r.playlists[m] : m \in 1..Len(r.playlists)}
        \cup UNION {{pend[k].playlists[m] : m \in 1..Len(pend[k].playlists)} :
                       k \in 1..Len(pend)}

\* C12: the step in which processPlaylist creates playlist p for a URL
\* listing N >= 1 videos adds exactly N jobs carrying p, no job carried p
\* before, and the videoIds it returns are these jobs in enumeration order;
\* no later step changes the set of jobs carrying p.
C12_PlaylistMembersFixed ==
    [][/\ nextPlaylist' = nextPlaylist + 1
          => /\ Members(downloads, nextPlaylist) = {}
             /\ \E e \in Entries(res', pending') :
                   /\ e.id = nextPlaylist
                   /\ Len(PlaylistItems(e.url)) >= 1
                   /\ Len(e.videoIds) = Len(PlaylistItems(e.url))
                   /\ Cardinality(Members(downloads', e.id)) = Len(PlaylistItems(e.url))
                   /\ \A m \in 1..Len(e.videoIds) :
                         /\ e.videoIds[m] \notin Created
                         /\ e.videoIds[m] \in Members(downloads', e.id)
                         /\ downloads'[e.videoIds[m]].url = PlaylistItems(e.url)[m]
       /\ \A p \in 1..(nextPlaylist - 1) :
             Members(downloads', p) = Members(downloads, p)]_vars

C12_Witness ==
    /\ res.code = 202
    /\ \E e \in Entries(res, <<>>) :
          /\ Len(e.videoIds) = 2
          /\ Members(downloads, e.id) = {e.videoIds[1], e.videoIds[2]}
          /\ \A j \in Members(downloads, e.id) : pc[j] = "done"

\* the status of a playlist as its member jobs determine it
DerivedStatus(ds, ids) ==
    IF \A m \in 1..Len(ids) : ds[ids[m]].status = "completed" THEN "completed"
    ELSE IF \E m \in 1..Len(ids) : ds[ids[m]].status = "error" THEN "error"
    ELSE "processing"

\* C13: the status a response reports for a playlist is the one its member
\* jobs determine at that moment: completed iff all are completed, error iff
\* one is in error, processing otherwise.
C13_PlaylistStatusDerived ==
    [][res' # res
          => \A m \in 1..Len(res'.playlists) :
                res'.playlists[m].status
                    = DerivedStatus(downloads', res'.playlists[m].videoIds)]_vars

\* C14: a start request whose urls is empty, missing or not an array is
\* answered 400; it creates no job, starts no subprocess and leaves the
\* registry as it was.
C14_EmptyRequestRejected ==
    [][\A body \in {b \in Bodies : b.kind # "array" \/ Len(b.urls) = 0} :
          StartDownload(body)
              => /\ res'.code = 400
                 /\ UNCHANGED <<downloads, downloadProcesses, pc, hist, nextId, pending>>]_vars

C14_Witness ==
    /\ res.code = 400
    /\ Created # {}

\* C15: when a suspended start request is answered 500 because its playlist
\* enumeration failed or listed nothing, none of the ids the request had
\* collected is a job of the registry and none has a subprocess.
C15_FailedRequestLeavesNothing ==
    [][\A r \in 1..Len(pending) :
          (res'.code = 500 /\ served' = served + 1 /\ pending' = Without(pending, r))
              => \A m \in 1..Len(pending[r].downloadIds) :
                    /\ pending[r].downloadIds[m] \notin DOMAIN downloads'
                    /\ pending[r].downloadIds[m] \notin DOMAIN downloadProcesses']_vars

\* the URLs of the jobs a urls array asks for: a single URL itself, a
\* playlist URL the videos it lists
RECURSIVE Wanted(_, _)
Wanted(urls, i) ==
    IF i > Len(urls) THEN <<>>
    ELSE (IF IsPlaylistUrl(urls[i]) THEN PlaylistItems(urls[i]) ELSE <<urls[i]>>)
             \o Wanted(urls, i + 1)

\* C16: a 202 response holds one id per single URL and N per playlist of N
\* videos, in the order of the request; the ids are pairwise distinct and
\* each is a job of the registry with the URL asked for; every id a step
\* issues is a new key of the registry, so none was issued before.
C16_AcceptedIdsDistinct ==
    [][/\ (res' # res /\ res'.code = 202)
          => LET ids == res'.downloadIds
                 wanted == Wanted(res'.urls, 1)
             IN /\ Len(ids) = Len(wanted)
                /\ Len(ids) >= 1
                /\ \A m, n \in 1..Len(ids) : m # n => ids[m] # ids[n]
                /\ \A m \in 1..Len(ids) :
                      /\ ids[m] \in DOMAIN downloads'
                      /\ downloads'[ids[m]].id = ids[m]
                      /\ downloads'[ids[m]].url = wanted[m]
       /\ DOMAIN downloads \subseteq DOMAIN downloads'
       /\ Cardinality(DOMAIN downloads' \ DOMAIN downloads) = nextId' - nextId
       /\ \A j \in DOMAIN downloads' \ DOMAIN downloads : j >= nextId]_vars

C16_Witness ==
    /\ res.code = 202
    /\ Len(res.urls) = 2
    /\ Len(res.playlists) = 1
    /\ Len(res.downloadIds) = 2

C20_InfoFailureTolerated ==
    \A j \in Created :
        /\ (hist[j].spawns = 0 /\ pc[j] # "block2") => downloads[j].status # "error"
        /\ pc[j] = "done" => hist[j].spawns >= 1
        /\ (Running(j) /\ ~Truthy(VideoTitle(downloads[j].url)))
              => downloads[j].title = UnknownTitle

\* the processing of a video without title never ends in status completed
NoTitleNeverCompletes ==
    \A j \in Created :
        (~Truthy(VideoTitle(downloads[j].url)) /\ pc[j] = "done")
            => downloads[j].status # "completed"

----------------------------------------------------------------------------
(* Records, polling and validation *)

\* C23: a job has an error value only when its status is error.
C23_ErrorOnlyWithStatusError ==
    \A j \in Created :
        downloads[j].error # NoError => downloads[j].status = "error"

\* C24: no step removes a job from the registry or changes the id or the
\* url of a job.
C24_JobsKeptIdAndUrlFixed ==
    [][\A j \in DOMAIN downloads :
          /\ j \in DOMAIN downloads'
          /\ downloads'[j].id = downloads[j].id
          /\ downloads'[j].url = downloads[j].url]_vars

C24_Witness ==
    \E j \in Created :
        /\ pc[j] = "done"
        /\ hist[j].exitNonZero
        /\ hist[j].spawns = 2
        /\ downloads[j].id = j
        /\ res.code = 404

\* the invocation c passes url as one element of an argument list
DiscreteUrl(c, url) ==
    /\ ~c.shell
    /\ \E i \in 1..Len(c.words) : c.words[i] = url

\* C28: every invocation of the extraction binary made for a job or for a
\* playlist of a start request passes the URL as one element of an argument
\* list; none is a command line for a shell.
C28_UrlIsDiscreteArgument ==
    /\ \A j \in Created :
          \A c \in hist[j].invoked : DiscreteUrl(c, downloads[j].url)
    /\ \A r \in 1..Len(pending) :
          DiscreteUrl(pending[r].cmd, pending[r].urls[pending[r].at])

\* C29: the progress of every job lies in 0..100.
C29_ProgressInRange ==
    \A j \in Created : downloads[j].progress >= 0 /\ downloads[j].progress <= 100

\* the progress values that only a line reporting more than 100 percent
\* produces
OverRange ==
    {q \in Percents : q > 100} \cup {10 + (8 * q) \div 10 : q \in {r \in Percents : r > 100}}

\* C30: a stdout line reporting p <= 100 for a running job sets the progress
\* to 10 + 0.8 p, and while a subprocess of a job runs with status
\* downloading the progress stays within 10..90 (lines reporting more than
\* 100 percent set aside).
C30_ScaledProgress ==
    /\ [][\A j \in Created : \A p \in {q \in Percents : q <= 100} :
             (StdoutFirst(j, p) \/ StdoutSecond(j, p))
                 => downloads'[j].progress = 10 + (8 * p) \div 10]_vars
    /\ [](\A j \in Created :
             (/\ Running(j)
              /\ downloads[j].status = "downloading"
              /\ hist[j].live > 0
              /\ downloads[j].progress \notin OverRange)
                 => (downloads[j].progress >= 10 /\ downloads[j].progress <= 90))

\* C25: a poll changes no job, adds and removes none and leaves the
\* subprocess handles as they are; its answer is computed from the registry
\* alone.
C25_PollIsReadOnly ==
    [][\A ids \in IdLists :
          GetDownloadStatus(ids)
              => /\ UNCHANGED <<downloads, downloadProcesses, fs, pc, local>>
                 /\ statuses' = StatusEntries(downloads)]_vars

C25_Witness ==
    /\ Len(statuses) = 1
    /\ statuses[1].status = "downloading"
    /\ \E j \in Created : Running(j) /\ j \in DOMAIN downloadProcesses

\* C26: a poll for ids answers with one entry per requested id, in request
\* order: the id, status and progress of the job for a known id, a not-found
\* entry for an unknown one; a job that was not asked for has no entry.
C26_PollAnswersRequestedIds ==
    [][\A ids \in IdLists :
          GetDownloadStatus(ids)
              => /\ Len(statuses') = Len(ids)
                 /\ \A m \in 1..Len(ids) :
                       /\ statuses'[m].id = ids[m]
                       /\ IF ids[m] \in Created
                          THEN /\ statuses'[m].status = downloads[ids[m]].status
                               /\ statuses'[m].progress = downloads[ids[m]].progress
                          ELSE statuses'[m].error = "not found"]_vars

\* C27: a start request is admitted exactly when its quality is 0 or an
\* integer in 96..320; any other quality is answered 400 and creates no job.
C27_QualityRange ==
    [][\A body \in {b \in Bodies : b.kind = "array" /\ b.urls = <<"u1">>} :
          StartDownload(body)
              => LET q == body.quality
                     wanted == /\ q.numeric
                               /\ q.tenths % 10 = 0
                               /\ q.tenths = 0 \/ (q.tenths >= 960 /\ q.tenths <= 3200)
                 IN IF wanted
                    THEN res'.code = 202 /\ nextId' = nextId + 1
                    ELSE res'.code = 400 /\ UNCHANGED <<downloads, nextId>>]_vars

----------------------------------------------------------------------------
(* writeTags *)

\* NodeID3.write reported failure or threw, or the read-back failed
WriteFailed == tag.wrote \in {"unverified", "false", "threw"}

C22_NoBackupLeft ==
    tag.pc = "done" => tag.bak = Absent

\* C31: a playlist job whose createZipArchive failed ends in status error
\* with the failure recorded, and is not left in completed.
C31_ZipFailureEndsInError ==
    \A j \in Created :
        (hist[j].zipFail /\ pc[j] = "done")
            => (downloads[j].status = "error" /\ downloads[j].error # NoError)

\* C32: writeTags attempts a write only in the step that has made a backup
\* holding the original content, the file changes only by that write or
\* after it, and a call that ends without a write (the file was not
\* accessible or the copy failed) returns false with the file as it was and
\* no backup.
C32_BackupBeforeWrite ==
    /\ [][tag'.wrote # tag.wrote
             => (tag.file = tag.orig /\ tag'.bak = tag.orig /\ tag.orig # Absent)]_vars
    /\ [][tag'.file # tag.file => tag'.wrote # "none"]_vars
    /\ []((tag.pc = "done" /\ tag.wrote = "none")
             => (tag.result = "false" /\ tag.file = tag.orig /\ tag.bak = Absent))

C32_Witness ==
    /\ tag.pc = "done"
    /\ tag.wrote = "none"
    /\ tag.orig # Absent
    /\ tag.result = "false"
    /\ tag.file = tag.orig

\* writeTags is being awaited for job j
Tagging(j) == pc[j] \in {"tags1", "tags2"}

\* the errors of a non-zero exit, a missing file and an empty file
OutputFailures ==
    {ExitMessage(code) : code \in ExitCodes \ {0}}
        \cup {"Output file was not created", "ENOENT: no such file or directory",
              "Downloaded file is empty"}

\* C33: writeTags is called for a job only after its subprocess closed with
\* code 0 and its output file was found with a size above zero; the status
\* becomes completed only when that call has settled; and a job that ends
\* in error through a non-zero exit, a missing file or an empty file has
\* never had writeTags called.
C33_TagsOnlyForVerifiedOutput ==
    /\ [][\A j \in Created :
             (Tagging(j)' /\ ~Tagging(j))
                 => /\ hist[j].exit0
                    /\ hist[j].live = 0
                    /\ local'[j].stats > 0
                    /\ downloads'[j].status # "completed"]_vars
    /\ [][\A j \in Created :
             (downloads'[j].status = "completed" /\ downloads[j].status # "completed")
                 => (Tagging(j) /\ hist[j].tagged)]_vars
    /\ [](\A j \in Created :
             (pc[j] = "done" /\ downloads[j].status = "error"
                  /\ downloads[j].error \in OutputFailures)
                 => ~hist[j].tagged)

\* C34: in the tags writeTags prepares, a present incoming title, artist,
\* album, year or genre is written as passed; an absent one falls back to
\* the tag of the file, album and genre to "Unknown Album" and "Unknown
\* Genre" when the file has none either; and when the existing tags could
\* not be read the call goes on with empty existing tags.
C34_TagMerge ==
    tag.pc = "copy" =>
        LET m == tag.metadata
            e == IF tag.parsed THEN tag.onFile ELSE EmptyCommon
            t == tag.tags
        IN /\ tag.result = "none"
           /\ \A f \in {"title", "artist", "album", "year", "genre"} :
                 m[f] # NoValue => t[f] = m[f]
           /\ \A f \in {"title", "artist"} : m[f] = NoValue => t[f] = e[f]
           /\ m.album = NoValue
                 => t.album = IF e.album # NoValue THEN e.album ELSE "Unknown Album"
           /\ m.year = NoValue
                 => t.year = IF e.year # NoYear THEN ToString(e.year) ELSE NoValue
           /\ m.genre = NoValue
                 => t.genre = IF e.genre # NoGenre THEN e.genre[1] ELSE "Unknown Genre"

C34_Witness ==
    /\ tag.pc = "copy"
    /\ tag.parsed
    /\ tag.metadata.title = NoValue /\ tag.onFile.title = "old" /\ tag.tags.title = "old"
    /\ tag.metadata.artist = "a1" /\ tag.onFile.artist = "a0" /\ tag.tags.artist = "a1"
    /\ tag.metadata.album = NoValue /\ tag.onFile.album = NoValue
    /\ tag.tags.album = "Unknown Album"
    /\ tag.metadata.year = "2024" /\ tag.onFile.year = 1999 /\ tag.tags.year = "2024"
    /\ tag.metadata.genre = NoValue /\ tag.onFile.genre = <<"Rock">>

\* C35: processDownload for a job whose status is downloading or completed
\* returns at its guard and changes nothing; and while a call of
\* processDownload for a job has not returned, the guard turns every other
\* call for that job away, so that no two calls both extract.
C35_SkipGuard ==
    /\ \A j \in Created :
          downloads[j].status \in {"downloading", "completed"}
              => /\ ProcessDownloadSkips(downloads[j])
                 /\ ProcessDownloadHead(downloads[j]) = downloads[j]
    /\ \A j \in Created :
          pc[j] \notin {"done", "block2"} => ProcessDownloadSkips(downloads[j])

\* C36: every job that was created eventually has status completed or
\* error, also when a subprocess fails to start.
C36_EventuallyTerminal ==
    \A j \in JobIds : (j \in Created) ~> (j \in Created /\ Terminal(downloads[j]))

\* C37: once the processing of a job has ended with status completed, no
\* step deletes or rewrites the file at its outputPath.
C37_CompletedFileKept ==
    [][\A j \in Created :
          (pc[j] = "done" /\ downloads[j].status = "completed")
              => FileAt(fs', downloads[j]) = FileAt(fs, downloads[j])]_vars

====
